---- MODULE Spec2Model ----
(***************************************************************************)
(* Model of the CSV standardization pipeline of surg-case-scribe           *)
(* (src/unnamed/part_005, the view/standardize upload route):              *)
(*   parseCSV, mockColumnMapping, generateColumnMapping, standardizeData,  *)
(*   handleViewMode, handleStandardizeMode and POST.                       *)
(*                                                                         *)
(* A JavaScript string is modelled as a sequence of one-character strings, *)
(* a JavaScript object (Record<string,string>) as a sequence of            *)
(* [k |-> key, v |-> value] entries in insertion order with distinct keys. *)
(***************************************************************************)
EXTENDS Integers, Sequences, FiniteSets, TLC

(***************************************************************************)
(* Characters and JavaScript string primitives                             *)
(***************************************************************************)
LF == "\n"
CR == "\r"
COMMA == ","
QUOTE == "\""
SP == " "
US == "_"

\* String.prototype.trim removes these from both ends.
WhiteSpace == {SP, "\t", LF, CR}

UpperCase ==
  <<"A","B","C","D","E","F","G","H","I","J","K","L","M",
    "N","O","P","Q","R","S","T","U","V","W","X","Y","Z">>
LowerCase ==
  <<"a","b","c","d","e","f","g","h","i","j","k","l","m",
    "n","o","p","q","r","s","t","u","v","w","x","y","z">>
Digits == <<"0","1","2","3","4","5","6","7","8","9">>

Range(s) == {s[i] : i \in 1..Len(s)}

\* String.prototype.toLowerCase, one character.
LowerChar(c) ==
  IF \E i \in 1..Len(UpperCase) : UpperCase[i] = c
    THEN LowerCase[CHOOSE i \in 1..Len(UpperCase) : UpperCase[i] = c]
    ELSE c

toLowerCase(s) == [i \in 1..Len(s) |-> LowerChar(s[i])]

\* String.prototype.trim
trim(s) ==
  LET keep == {i \in 1..Len(s) : s[i] \notin WhiteSpace}
  IN IF keep = {} THEN <<>>
     ELSE LET lo == CHOOSE i \in keep : \A j \in keep : i <= j
              hi == CHOOSE i \in keep : \A j \in keep : j <= i
          IN SubSeq(s, lo, hi)

\* The k-th smallest element (k >= 1) of a finite set of integers.
KthOf(S, k) == CHOOSE i \in S : Cardinality({j \in S : j < i}) = k - 1

\* String.prototype.split(c) for a one-character separator c: the pieces
\* between the occurrences of c, in order; always at least one piece.
split(s, c) ==
  LET at == {i \in 1..Len(s) : s[i] = c}
      n == Cardinality(at)
      from(k) == IF k = 1 THEN 1 ELSE KthOf(at, k - 1) + 1
      upto(k) == IF k = n + 1 THEN Len(s) ELSE KthOf(at, k) - 1
  IN [k \in 1..(n + 1) |-> SubSeq(s, from(k), upto(k))]

\* text.split(/\r?\n/): the pieces between line feeds; a carriage return
\* directly before a line feed belongs to the separator.
splitLines(text) ==
  LET raw == split(text, LF)
      n == Len(raw)
      chop(p) == IF Len(p) > 0 /\ p[Len(p)] = CR THEN SubSeq(p, 1, Len(p) - 1) ELSE p
  IN [k \in 1..n |-> IF k < n THEN chop(raw[k]) ELSE raw[k]]

\* A slice that keeps everything.
sliceAll(s, n) == s

\* Array.prototype.slice(0, n) and String.prototype.substring(0, n)
slice0(s, n) == SubSeq(s, 1, IF n < Len(s) THEN n ELSE Len(s))

\* Array.prototype.join (evaluated by halving the array)
RECURSIVE join(_, _)
join(parts, sep) ==
  IF Len(parts) = 0 THEN <<>>
  ELSE IF Len(parts) = 1 THEN parts[1]
  ELSE LET h == Len(parts) \div 2
       IN join(SubSeq(parts, 1, h), sep) \o sep \o join(SubSeq(parts, h + 1, Len(parts)), sep)

(***************************************************************************)
(* JavaScript objects with string keys                                     *)
(***************************************************************************)
DigitVal(c) == (CHOOSE i \in 1..Len(Digits) : Digits[i] = c) - 1

\* An "array index" property name: a canonical decimal numeral.  Such keys
\* are enumerated first, in ascending numeric order, by Object.keys and
\* Object.entries, before the other keys in insertion order.
IsIndexKey(k) ==
  /\ Len(k) > 0
  /\ \A i \in 1..Len(k) : k[i] \in Range(Digits)
  /\ (Len(k) = 1 \/ k[1] # "0")

RECURSIVE NumVal(_)
NumVal(k) ==
  IF Len(k) = 0 THEN 0
  ELSE 10 * NumVal(SubSeq(k, 1, Len(k) - 1)) + DigitVal(k[Len(k)])

HasKey(obj, key) == \E i \in 1..Len(obj) : obj[i].k = key

\* obj[key] for a key the object has.
Get(obj, key) == obj[CHOOSE i \in 1..Len(obj) : obj[i].k = key].v

\* obj[key] = val
Put(obj, key, val) ==
  IF HasKey(obj, key)
    THEN [i \in 1..Len(obj) |-> IF obj[i].k = key THEN [k |-> key, v |-> val] ELSE obj[i]]
    ELSE Append(obj, [k |-> key, v |-> val])

\* Object.entries(obj): index keys ascending, then the rest in insertion order.
entries(obj) ==
  LET idx == {i \in 1..Len(obj) : IsIndexKey(obj[i].k)}
      n == Cardinality(idx)
      rank(i) == Cardinality({j \in idx : NumVal(obj[j].k) < NumVal(obj[i].k)}) + 1
      IsIdx(e) == IsIndexKey(e.k)
      NotIdx(e) == ~IsIndexKey(e.k)
  IN [r \in 1..n |-> obj[CHOOSE i \in idx : rank(i) = r]] \o SelectSeq(obj, NotIdx)

\* Object.keys(obj)
keys(obj) == LET e == entries(obj) IN [i \in 1..Len(e) |-> e[i].k]

KeySet(obj) == {obj[i].k : i \in 1..Len(obj)}

(***************************************************************************)
(* parseCSV                                                                *)
(***************************************************************************)
\* The character loop of parseCSV over one line, from position j, with the
\* loop's locals: row, fieldValue, currentField (0-based) and inQuotes.
\* Returns the locals after the loop.
RECURSIVE scanLine(_, _, _, _, _, _, _)
scanLine(headers, line, j, row, fieldValue, currentField, inQuotes) ==
  IF j > Len(line)
    THEN [row |-> row, fieldValue |-> fieldValue, currentField |-> currentField]
  ELSE IF line[j] = QUOTE
    THEN scanLine(headers, line, j + 1, row, fieldValue, currentField, ~inQuotes)
  ELSE IF line[j] = COMMA /\ ~inQuotes
    THEN scanLine(headers, line, j + 1,
                  IF currentField < Len(headers)
                    THEN Put(row, headers[currentField + 1], trim(fieldValue))
                    ELSE row,
                  <<>>, currentField + 1, inQuotes)
  ELSE scanLine(headers, line, j + 1, row, Append(fieldValue, line[j]), currentField, inQuotes)

\* The quote-aware pass: the loop, then "Add the last field".
quotePass(headers, line) ==
  LET s == scanLine(headers, line, 1, <<>>, <<>>, 0, FALSE)
  IN IF s.currentField < Len(headers)
       THEN Put(s.row, headers[s.currentField + 1], trim(s.fieldValue))
       ELSE s.row

\* headers.forEach((header, index) => row[header] = index < values.length ? values[index].trim() : '')
RECURSIVE fillFrom(_, _, _, _)
fillFrom(headers, values, index, row) ==
  IF index >= Len(headers) THEN row
  ELSE fillFrom(headers, values, index + 1,
                Put(row, headers[index + 1],
                    IF index < Len(values) THEN trim(values[index + 1]) ELSE <<>>))

\* The simple-split fallback for a row with fewer keys than headers.
simpleSplitRow(headers, line, row) == fillFrom(headers, split(line, COMMA), 0, row)

\* A per-line body that always splits on every comma.
parseLineSplitOnly(headers, line) == simpleSplitRow(headers, line, <<>>)

\* A fallback that keeps what the quote-aware pass wrote and gives the
\* empty string to the headers it left out.
RECURSIVE fillMissing(_, _, _)
fillMissing(headers, index, row) ==
  IF index >= Len(headers) THEN row
  ELSE fillMissing(headers, index + 1,
                   IF HasKey(row, headers[index + 1]) THEN row
                   ELSE Put(row, headers[index + 1], <<>>))

\* A per-line body whose fallback only pads the quote-aware row.
parseLinePadOnly(headers, line) == fillMissing(headers, 0, quotePass(headers, line))

\* The body of the per-line loop: one row object for one data line.
parseLine(headers, line) ==
  LET row == quotePass(headers, line)
  IN IF Len(row) < Len(headers) THEN simpleSplitRow(headers, line, row) ELSE row

NonBlank(line) == trim(line) # <<>>

\* The lines of a text with the blank ones kept.
csvLinesAll(text) == splitLines(text)

\* const lines = text.split(/\r?\n/).filter(line => line.trim())
csvLines(text) == SelectSeq(splitLines(text), NonBlank)

\* const headers = lines[0].split(',').map(header => header.trim())
csvHeaders(lines) == LET hs == split(lines[1], COMMA) IN [i \in 1..Len(hs) |-> trim(hs[i])]

\* A parse that starts at the second data line.
parseCSVFromSecond(text) ==
  LET lines == csvLines(text)
  IN IF Len(lines) = 0 THEN <<>>
     ELSE LET headers == csvHeaders(lines)
          IN [i \in 1..(Len(lines) - 2) |-> parseLine(headers, lines[i + 2])]

\* A parse that stops before the first data line with an odd number of quotes.
parseCSVAbort(text) ==
  LET lines == csvLines(text)
      odd == {k \in 2..Len(lines) :
                Cardinality({i \in 1..Len(lines[k]) : lines[k][i] = QUOTE}) % 2 = 1}
      last == IF odd = {} THEN Len(lines) ELSE (CHOOSE k \in odd : \A j \in odd : k <= j) - 1
  IN IF Len(lines) = 0 THEN <<>>
     ELSE LET headers == csvHeaders(lines)
          IN [i \in 1..(last - 1) |-> parseLine(headers, lines[i + 1])]

parseCSV(text) ==
  LET lines == csvLines(text)
  IN IF Len(lines) = 0 THEN <<>>
     ELSE LET headers == csvHeaders(lines)
          IN [i \in 1..(Len(lines) - 1) |-> parseLine(headers, lines[i + 1])]

(***************************************************************************)
(* mockColumnMapping: the heuristic mapper                                 *)
(***************************************************************************)
procedure_date == <<"p","r","o","c","e","d","u","r","e","_","d","a","t","e">>
procedure_type == <<"p","r","o","c","e","d","u","r","e","_","t","y","p","e">>
patient_id == <<"p","a","t","i","e","n","t","_","i","d">>
hospital == <<"h","o","s","p","i","t","a","l">>
attending == <<"a","t","t","e","n","d","i","n","g">>

\* The substrings the rules test with String.prototype.includes.
s_date == <<"d","a","t","e">>
s_dt == <<"d","t">>
s_proc == <<"p","r","o","c">>
s_surg == <<"s","u","r","g">>
s_operation == <<"o","p","e","r","a","t","i","o","n">>
s_patient == <<"p","a","t","i","e","n","t">>
s_pt == <<"p","t">>
s_id == <<"i","d">>
s_hosp == <<"h","o","s","p">>
s_fac == <<"f","a","c">>
s_loc == <<"l","o","c">>
s_doc == <<"d","o","c">>
s_phys == <<"p","h","y","s">>
s_attend == <<"a","t","t","e","n","d">>

\* String.prototype.includes
includes(s, pat) ==
  \E i \in 1..(Len(s) - Len(pat) + 1) : SubSeq(s, i, i + Len(pat) - 1) = pat

\* The subsequence of s at the positions in keep.
Pick(s, keep) == [r \in 1..Cardinality(keep) |-> s[KthOf(keep, r)]]

IsLowerAlnum(c) == c \in Range(LowerCase) \cup Range(Digits)

\* A rewrite that keeps every underscore of a run.
snakeCaseNoCollapse(header) ==
  LET lower == toLowerCase(header)
      r1 == [i \in 1..Len(lower) |-> IF IsLowerAlnum(lower[i]) THEN lower[i] ELSE US]
      lo == IF Len(r1) > 0 /\ r1[1] = US THEN 2 ELSE 1
      hi == IF Len(r1) >= lo /\ r1[Len(r1)] = US THEN Len(r1) - 1 ELSE Len(r1)
  IN SubSeq(r1, lo, hi)

\* A rewrite that strips the underscore at each end before it collapses
\* the runs.
snakeCaseStripFirst(header) ==
  LET lower == toLowerCase(header)
      r1 == [i \in 1..Len(lower) |-> IF IsLowerAlnum(lower[i]) THEN lower[i] ELSE US]
      lo == IF Len(r1) > 0 /\ r1[1] = US THEN 2 ELSE 1
      hi == IF Len(r1) >= lo /\ r1[Len(r1)] = US THEN Len(r1) - 1 ELSE Len(r1)
      r2 == SubSeq(r1, lo, hi)
  IN Pick(r2, {i \in 1..Len(r2) : ~(r2[i] = US /\ i > 1 /\ r2[i - 1] = US)})

\* header.toLowerCase().replace(/[^a-z0-9]/g, '_').replace(/_+/g, '_').replace(/^_|_$/g, '')
snakeCase(header) ==
  LET lower == toLowerCase(header)
      r1 == [i \in 1..Len(lower) |-> IF IsLowerAlnum(lower[i]) THEN lower[i] ELSE US]
      r2 == Pick(r1, {i \in 1..Len(r1) : ~(r1[i] = US /\ i > 1 /\ r1[i - 1] = US)})
      lo == IF Len(r2) > 0 /\ r2[1] = US THEN 2 ELSE 1
      hi == IF Len(r2) >= lo /\ r2[Len(r2)] = US THEN Len(r2) - 1 ELSE Len(r2)
  IN SubSeq(r2, lo, hi)

\* A chain that tests the attending rule before the procedure_type rule.
heuristicNameAttendingFirst(header) ==
  LET lowerHeader == toLowerCase(header)
  IN IF includes(lowerHeader, s_date) \/ includes(lowerHeader, s_dt)
       THEN procedure_date
     ELSE IF includes(lowerHeader, s_doc) \/ includes(lowerHeader, s_phys)
             \/ includes(lowerHeader, s_surg) \/ includes(lowerHeader, s_attend)
       THEN attending
     ELSE IF includes(lowerHeader, s_proc) \/ includes(lowerHeader, s_surg)
             \/ includes(lowerHeader, s_operation)
       THEN procedure_type
     ELSE IF includes(lowerHeader, s_patient) \/ includes(lowerHeader, s_pt)
             \/ includes(lowerHeader, s_id)
       THEN patient_id
     ELSE IF includes(lowerHeader, s_hosp) \/ includes(lowerHeader, s_fac)
             \/ includes(lowerHeader, s_loc)
       THEN hospital
     ELSE snakeCase(header)

\* A chain whose procedure_type rule does not test surg.
heuristicNameSurgAttending(header) ==
  LET lowerHeader == toLowerCase(header)
  IN IF includes(lowerHeader, s_date) \/ includes(lowerHeader, s_dt)
       THEN procedure_date
     ELSE IF includes(lowerHeader, s_proc) \/ includes(lowerHeader, s_operation)
       THEN procedure_type
     ELSE IF includes(lowerHeader, s_patient) \/ includes(lowerHeader, s_pt)
             \/ includes(lowerHeader, s_id)
       THEN patient_id
     ELSE IF includes(lowerHeader, s_hosp) \/ includes(lowerHeader, s_fac)
             \/ includes(lowerHeader, s_loc)
       THEN hospital
     ELSE IF includes(lowerHeader, s_doc) \/ includes(lowerHeader, s_phys)
             \/ includes(lowerHeader, s_surg) \/ includes(lowerHeader, s_attend)
       THEN attending
     ELSE snakeCase(header)

\* The if / else-if chain applied to one header.
heuristicName(header) ==
  LET lowerHeader == toLowerCase(header)
  IN IF includes(lowerHeader, s_date) \/ includes(lowerHeader, s_dt)
       THEN procedure_date
     ELSE IF includes(lowerHeader, s_proc) \/ includes(lowerHeader, s_surg)
             \/ includes(lowerHeader, s_operation)
       THEN procedure_type
     ELSE IF includes(lowerHeader, s_patient) \/ includes(lowerHeader, s_pt)
             \/ includes(lowerHeader, s_id)
       THEN patient_id
     ELSE IF includes(lowerHeader, s_hosp) \/ includes(lowerHeader, s_fac)
             \/ includes(lowerHeader, s_loc)
       THEN hospital
     ELSE IF includes(lowerHeader, s_doc) \/ includes(lowerHeader, s_phys)
             \/ includes(lowerHeader, s_surg) \/ includes(lowerHeader, s_attend)
       THEN attending
     ELSE snakeCase(header)

\* for (const header of originalHeaders) mapping[header] = ...
RECURSIVE mockFrom(_, _, _)
mockFrom(originalHeaders, i, mapping) ==
  IF i > Len(originalHeaders) THEN mapping
  ELSE mockFrom(originalHeaders, i + 1,
                Put(mapping, originalHeaders[i], heuristicName(originalHeaders[i])))

mockColumnMapping(originalHeaders) == mockFrom(originalHeaders, 1, <<>>)

(***************************************************************************)
(* The value generateColumnMapping returns and standardizeData reads       *)
(***************************************************************************)
\* JSON.parse can return any JSON value, and generateColumnMapping returns
\* it unchecked.  A value is [kind, obj, str, items]: an object of string
\* values (obj), null, a number, a string (str) or an array of strings
\* (items).  Property names of Object.prototype are not modelled.
JObject(o) == [kind |-> "object", obj |-> o, str |-> <<>>, items |-> <<>>]
JNull == [kind |-> "null", obj |-> <<>>, str |-> <<>>, items |-> <<>>]
JNumber == [kind |-> "number", obj |-> <<>>, str |-> <<>>, items |-> <<>>]
JString(t) == [kind |-> "string", obj |-> <<>>, str |-> t, items |-> <<>>]
JArray(a) == [kind |-> "array", obj |-> <<>>, str |-> <<>>, items |-> a]

s_length == <<"l","e","n","g","t","h">>
cpt_code == <<"c","p","t","_","c","o","d","e">>

\* String(n) for a natural number n.
RECURSIVE NumStr(_)
NumStr(n) == IF n < 10 THEN <<Digits[n + 1]>> ELSE NumStr(n \div 10) \o <<Digits[(n % 10) + 1]>>

\* mapping[originalCol] for a mapping that is not null, as the property
\* name it yields when truthy, or <<>> when it is undefined or falsy
\* (the empty string, the number 0).
lookup(mapping, originalCol) ==
  CASE mapping.kind = "object" ->
         IF HasKey(mapping.obj, originalCol) THEN Get(mapping.obj, originalCol) ELSE <<>>
    [] mapping.kind = "string" ->
         IF IsIndexKey(originalCol) /\ NumVal(originalCol) < Len(mapping.str)
           THEN <<mapping.str[NumVal(originalCol) + 1]>>
         ELSE IF originalCol = s_length /\ Len(mapping.str) > 0
           THEN NumStr(Len(mapping.str))
         ELSE <<>>
    [] mapping.kind = "array" ->
         IF IsIndexKey(originalCol) /\ NumVal(originalCol) < Len(mapping.items)
           THEN mapping.items[NumVal(originalCol) + 1]
         ELSE IF originalCol = s_length /\ Len(mapping.items) > 0
           THEN NumStr(Len(mapping.items))
         ELSE <<>>
    [] OTHER -> <<>>

\* A column name taken from the mapping alone, empty when it gives none.
standardColMappedOnly(mapping, originalCol) == lookup(mapping, originalCol)

\* const standardCol = mapping[originalCol] || originalCol
standardCol(mapping, originalCol) ==
  IF lookup(mapping, originalCol) # <<>> THEN lookup(mapping, originalCol) ELSE originalCol

(***************************************************************************)
(* standardizeData                                                         *)
(***************************************************************************)
\* for (const [originalCol, value] of Object.entries(row)) standardizedRow[standardCol] = value
RECURSIVE mapEntries(_, _, _, _)
mapEntries(ents, mapping, i, standardizedRow) ==
  IF i > Len(ents) THEN standardizedRow
  ELSE mapEntries(ents, mapping, i + 1,
                  Put(standardizedRow, standardCol(mapping, ents[i].k), ents[i].v))

\* A step that sets cpt_code to the empty string whatever the row holds.
addCptCodeAlways(standardizedRow) == Put(standardizedRow, cpt_code, <<>>)

\* if (!standardizedRow.hasOwnProperty('cpt_code')) standardizedRow['cpt_code'] = ''
addCptCode(standardizedRow) ==
  IF ~HasKey(standardizedRow, cpt_code) THEN Put(standardizedRow, cpt_code, <<>>)
  ELSE standardizedRow

\* The callback of data.map: one standardized row for one row.
standardizeRow(row, mapping) == addCptCode(mapEntries(entries(row), mapping, 1, <<>>))

\* standardizeData(data, mapping).  Reading a property of null throws a
\* TypeError at the first column of the first row: threw is TRUE and no
\* rows are returned.
standardizeData(data, mapping) ==
  IF mapping.kind = "null" /\ \E i \in 1..Len(data) : Len(data[i]) > 0
    THEN [threw |-> TRUE, rows |-> <<>>]
    ELSE [threw |-> FALSE,
          rows |-> [i \in 1..Len(data) |-> standardizeRow(data[i], mapping)]]

(***************************************************************************)
(* Inputs of a request                                                     *)
(***************************************************************************)
\* Rows echoed back in a response: slice(0, 100).
PreviewBound == 100
\* Characters echoed back by view mode: substring(0, 50000).
ContentBound == 50000

\* How far past the preview bound the generated row counts go.
MaxOver == 2

T_empty == <<>>
T_blank == <<"\n"," ","\n">>
T_headerOnly == <<"a",",","b","\n">>
T_scenario == <<"S","u","r","g","e","r","y"," ","D","a","t","e",",","P","t"," ","I","D",",","L","o","c","a","t","i","o","n","\n","2","0","2","3","-","0","5","-","0","1",",","P","1","0","0",",","M","e","r","c","y"," ","H","o","s","p","i","t","a","l">>
T_collide == <<"d","a","t","e",",","d","t","\n","x",",","y","\n","z">>
T_index == <<"_","1",",","1","\n","x",",","y">>
T_cpt == <<"c","p","t","_","c","o","d","e",",","a","\n","7",",","x","\n",",","y">>
T_quoted == <<"a",",","b",",","c","\n","\"","p",",","q","\"",",","x","\n","u",",","\"","v",",","w","\"",",","z">>
T_dash == <<"-",",","a","\n","5",",","6">>

\* A file of n data rows under the header "id,v": row i is "r<i>,x".
bigLine(i) == <<"r">> \o NumStr(i) \o <<",", "x">>
BigText(n) == join(<<<<"i","d",",","v">>>> \o [i \in 1..n |-> bigLine(i)], <<LF>>)

BigCounts == (PreviewBound - 1)..(PreviewBound + MaxOver) \cup {PreviewBound + 50}

SmallTexts == {T_empty, T_blank, T_headerOnly, T_scenario, T_collide, T_index, T_cpt, T_quoted}
Texts == SmallTexts \cup {BigText(n) : n \in BigCounts}

\* What the multipart request holds: formData() throws ("malformed"), there
\* is no file field ("nofile"), or a file with a name (isCsv: it ends in
\* .csv), a content (text) and whether text() can read it (readable).
NoFile == [isCsv |-> FALSE, text |-> <<>>, readable |-> TRUE]
FilesOf(texts) ==
  [isCsv : BOOLEAN, text : texts, readable : {TRUE}]
    \cup {[isCsv |-> TRUE, text |-> T_scenario, readable |-> FALSE]}
Modes == {"view", "standardize"}

\* A file that is not a .csv file and is one character longer than the
\* content view mode echoes back.
T_long == [i \in 1..(ContentBound + 1) |-> "x"]
LongFile == [isCsv |-> FALSE, text |-> T_long, readable |-> TRUE]

\* The names a reply of the reasoning service gives to a header.
ReplyNames == {cpt_code, <<"b">>, <<>>}
ExtraKey == <<"z","z">>

\* The objects a reply can hold for the submitted headers: each header
\* mapped to a reply name or left out, with or without a key that is no
\* header.
ReplyObjects(headers) ==
  LET n == Len(headers)
      Choice == [has : {TRUE}, name : ReplyNames] \cup {[has |-> FALSE, name |-> <<>>]}
      obj(f) == LET K == {i \in 1..n : f[i].has}
                IN [r \in 1..Cardinality(K) |->
                      [k |-> headers[KthOf(K, r)], v |-> f[KthOf(K, r)].name]]
  IN {obj(f) : f \in [1..n -> Choice]}
       \cup {Append(obj(f), [k |-> ExtraKey, v |-> <<"b">>]) : f \in [1..n -> Choice]}

\* What JSON.parse(contentText.trim()) can return for a reply.
ReplyValues(headers) ==
  {JNull, JNumber, JString(<<"a","b">>), JString(<<>>), JArray(<<cpt_code>>), JArray(<<>>)}
    \cup {JObject(o) : o \in ReplyObjects(headers)}

(***************************************************************************)
(* Inputs of the tokenizer and of the heuristic mapper                     *)
(***************************************************************************)
\* The most cells (fields as written) in the data lines of a generated text.
MaxCells == 3
\* The most tokens in a generated header name.
MaxTokens == 2

\* Fields as written in a data line: empty, blank, plain, padded with blanks,
\* quoted with an embedded comma, quoted and padded inside the quotes,
\* and with an opening quote that is never closed.
Cells == {<<>>, <<"x">>, <<" ","y"," ">>, <<"\"","p",",","q","\"">>, <<"\""," ","p",",","q"," ","\"">>, <<"\"","u">>}

HeaderLines == {<<"a">>, <<"a",",","b">>, <<"a",",","b",",","c">>, <<"a",",","a">>,
                <<"_","1",",","1">>}

\* The data part of a text: k cells, each followed by a comma (the next
\* cell is on the same line) or by a line break (it starts a new line).
DataParts(k) ==
  {[i \in 1..k |-> [cell |-> c[i], brk |-> b[i]]] :
     c \in [1..k -> Cells], b \in [1..k -> BOOLEAN]}

\* The text of a header line and a data part, lines ended by eol.
RECURSIVE dataText(_, _, _)
dataText(part, i, eol) ==
  IF i > Len(part) THEN <<>>
  ELSE part[i].cell
         \o (IF i = Len(part) THEN <<>> ELSE IF part[i].brk THEN eol ELSE <<COMMA>>)
         \o dataText(part, i + 1, eol)

\* Texts with a line that holds one blank: after the header line, between
\* two data lines, or at the end.
BlankLineTexts ==
  {h \o eol \o <<SP>> \o eol \o a : h \in HeaderLines, eol \in {<<LF>>, <<CR, LF>>}, a \in Cells}
    \cup {h \o eol \o a \o eol \o <<SP>> : h \in HeaderLines, eol \in {<<LF>>, <<CR, LF>>}, a \in Cells}
    \cup {h \o eol \o a \o eol \o <<SP>> \o eol \o b :
            h \in HeaderLines, eol \in {<<LF>>, <<CR, LF>>}, a \in Cells, b \in Cells}

TokTexts ==
  {<<>>} \cup HeaderLines \cup BlankLineTexts
    \cup {h \o eol \o dataText(part, 1, eol) :
            h \in HeaderLines, eol \in {<<LF>>, <<CR, LF>>},
            part \in UNION {DataParts(k) : k \in 1..MaxCells}}

\* Pieces of header names: the substrings the rules test, and letters,
\* digits and punctuation around them.
HeaderTokens ==
  {s_date, s_dt, s_proc, s_surg, s_operation, s_patient, s_pt, s_id, s_hosp, s_fac,
   s_loc, s_doc, s_phys, s_attend,
   <<"D">>, <<"T">>, <<"S","U","R","G">>, <<"x">>, <<"1">>, <<" ">>, <<"_">>, <<"-">>,
   <<"a"," ","-","_","b">>, <<"-","-","K","#","#","7">>}

RECURSIVE concat(_)
concat(parts) == IF Len(parts) = 0 THEN <<>> ELSE parts[1] \o concat(Tail(parts))

HeaderNames ==
  {concat(t) : t \in UNION {[1..k -> HeaderTokens] : k \in 0..MaxTokens}}

\* Header lists handed to mockColumnMapping: every single name, and the
\* pairs of a few names (a repeated name, two names of one role).
PairNames == {s_date, s_dt, <<"x">>, <<"_","1">>, <<"1">>}
HeaderLists ==
  {<<h>> : h \in HeaderNames} \cup {<<g, h>> : g \in PairNames, h \in PairNames}

(***************************************************************************)
(* State                                                                   *)
(***************************************************************************)
VARIABLES
  envKey,   \* process.env.OPENAI_API_KEY is set
  req,      \* req[r]: request r, its position (pc), input, locals and response
  call      \* a direct call of parseCSV or mockColumnMapping: argument and result

vars == <<envKey, req, call>>

NoResponse ==
  [http |-> 0, status |-> "", message |-> "", errorDetails |-> FALSE,
   fileType |-> "", headers |-> <<>>, rows |-> <<>>, totalRows |-> 0, content |-> <<>>,
   standardization |-> FALSE, original_headers |-> <<>>, column_mapping |-> JNull,
   standardized_data |-> <<>>, original_data |-> <<>>, total_rows |-> 0]

\* An error response that always carries the server-error status.
ErrorResponseServer(http, message, details) ==
  [NoResponse EXCEPT !.http = 500, !.status = "error", !.message = message,
                     !.errorDetails = details]

\* NextResponse.json({status: 'error', message, ...}, {status: http})
ErrorResponse(http, message, details) ==
  [NoResponse EXCEPT !.http = http, !.status = "error", !.message = message,
                     !.errorDetails = details]

Idle ==
  [pc |-> "idle", mode |-> "view", form |-> "file", file |-> NoFile,
   parsedData |-> <<>>, headers |-> <<>>, columnMapping |-> JNull,
   mapper |-> "", keySeen |-> FALSE, calls |-> 0, parses |-> 0, resp |-> NoResponse]

Reqs == DOMAIN req

NoCall == [fn |-> "", arg |-> <<>>, returned |-> FALSE, ret |-> <<>>]

Init ==
  /\ envKey \in BOOLEAN
  /\ req = [r \in 1..1 |-> Idle]
  /\ call = NoCall

(***************************************************************************)
(* The environment                                                         *)
(***************************************************************************)
\* The collaborator supplying configuration sets or removes the credential.
SetEnv ==
  /\ envKey' = ~envKey
  /\ UNCHANGED <<req, call>>

\* A client posts a request; POST runs up to `await request.formData()`.
Receive(r, mode, form, file) ==
  /\ req[r].pc \in {"idle", "done"}
  /\ req' = [req EXCEPT ![r] =
       [Idle EXCEPT !.pc = "formData", !.mode = mode, !.form = form,
                    !.file = IF form = "file" THEN file ELSE NoFile]]
  /\ UNCHANGED <<envKey, call>>

(***************************************************************************)
(* POST, handleViewMode, handleStandardizeMode                             *)
(***************************************************************************)
Respond(r, response) ==
  req' = [req EXCEPT ![r].pc = "done", ![r].resp = response]

\* A step that hands every file to the standardize handler's pipeline.
FormDataAnyFile(r) ==
  /\ req[r].pc = "formData"
  /\ IF req[r].form = "malformed"
       THEN Respond(r, ErrorResponse(500, "Server error processing upload", TRUE))
     ELSE IF req[r].form = "nofile"
       THEN Respond(r, ErrorResponse(200, "No file received", FALSE))
     ELSE IF req[r].mode = "standardize"
       THEN req' = [req EXCEPT ![r].pc = "stdText"]
     ELSE req' = [req EXCEPT ![r].pc = "viewText"]
  /\ UNCHANGED <<envKey, call>>

\* POST after formData() settles, up to the handler's `await file.text()`.
FormData(r) ==
  /\ req[r].pc = "formData"
  /\ IF req[r].form = "malformed"
       THEN Respond(r, ErrorResponse(500, "Server error processing upload", TRUE))
     ELSE IF req[r].form = "nofile"
       THEN Respond(r, ErrorResponse(200, "No file received", FALSE))
     ELSE IF req[r].mode = "standardize"
       THEN IF ~req[r].file.isCsv
              THEN Respond(r, ErrorResponse(200, "File must be a CSV for standardization", FALSE))
              ELSE req' = [req EXCEPT ![r].pc = "stdText"]
     ELSE req' = [req EXCEPT ![r].pc = "viewText"]
  /\ UNCHANGED <<envKey, call>>

\* A view step that hands the file to the standardize pipeline.
ViewTextAsStandardize(r) ==
  /\ req[r].pc = "viewText"
  /\ req' = [req EXCEPT ![r].pc = "stdText"]
  /\ UNCHANGED <<envKey, call>>

\* handleViewMode after file.text() settles.
ViewText(r) ==
  /\ req[r].pc = "viewText"
  /\ LET f == req[r].file
         parsedData == IF f.isCsv THEN parseCSV(f.text) ELSE <<>>
     IN IF ~f.readable
          THEN Respond(r, ErrorResponse(200, "Error reading file content", TRUE))
        ELSE IF f.isCsv /\ Len(parsedData) > 0
          THEN req' = [req EXCEPT ![r].pc = "done",
                 ![r].parses = @ + 1,
                 ![r].resp = [NoResponse EXCEPT !.http = 200, !.status = "success",
                    !.message = "CSV file processed successfully", !.fileType = "csv",
                    !.headers = keys(parsedData[1]),
                    !.rows = slice0(parsedData, PreviewBound),
                    !.totalRows = Len(parsedData)]]
        ELSE req' = [req EXCEPT ![r].pc = "done",
                 ![r].parses = IF f.isCsv THEN @ + 1 ELSE @,
                 ![r].resp = [NoResponse EXCEPT !.http = 200, !.status = "success",
                    !.message = "File processed successfully", !.fileType = "text",
                    !.content = slice0(f.text, ContentBound)]]
  /\ UNCHANGED <<envKey, call>>

\* generateColumnMapping returns `mapping`; handleStandardizeMode resumes
\* after `await generateColumnMapping(headers)`.
Mapped(r, how, mapping) ==
  req' = [req EXCEPT ![r].pc = "mapped", ![r].mapper = how, ![r].columnMapping = mapping]

\* A fallback that maps the first header only.
FallbackPartial(r, how) ==
  Mapped(r, how, JObject(mockColumnMapping(slice0(req[r].headers, 1))))

\* The fallback of generateColumnMapping: return mockColumnMapping(originalHeaders)
Fallback(r, how) == Mapped(r, how, JObject(mockColumnMapping(req[r].headers)))

\* A step that takes the credential for present once any request has seen it.
StdTextCached(r) ==
  /\ req[r].pc = "stdText"
  /\ LET f == req[r].file
         parsedData == parseCSV(f.text)
         headers == keys(parsedData[1])
         key == envKey \/ \E r2 \in Reqs : req[r2].keySeen
     IN IF ~f.readable
          THEN Respond(r, ErrorResponse(200, "Error standardizing CSV file", TRUE))
        ELSE IF Len(parsedData) = 0
          THEN req' = [req EXCEPT ![r].pc = "done", ![r].parses = @ + 1,
                 ![r].resp = ErrorResponse(200, "Could not parse any data from the CSV file", FALSE)]
        ELSE IF ~key
          THEN req' = [req EXCEPT ![r].pc = "mapped", ![r].parses = @ + 1,
                 ![r].parsedData = parsedData, ![r].headers = headers,
                 ![r].keySeen = FALSE, ![r].mapper = "nokey",
                 ![r].columnMapping = JObject(mockColumnMapping(headers))]
        ELSE req' = [req EXCEPT ![r].pc = "fetch", ![r].parses = @ + 1,
                 ![r].parsedData = parsedData, ![r].headers = headers,
                 ![r].keySeen = TRUE, ![r].calls = @ + 1]
  /\ UNCHANGED <<envKey, call>>

\* A step that goes on to the mapping when no row was parsed.
StdTextAnyRows(r) ==
  /\ req[r].pc = "stdText"
  /\ LET f == req[r].file
         parsedData == parseCSV(f.text)
         headers == IF Len(parsedData) = 0 THEN <<>> ELSE keys(parsedData[1])
     IN IF ~f.readable
          THEN Respond(r, ErrorResponse(200, "Error standardizing CSV file", TRUE))
        ELSE IF ~envKey
          THEN req' = [req EXCEPT ![r].pc = "mapped", ![r].parses = @ + 1,
                 ![r].parsedData = parsedData, ![r].headers = headers,
                 ![r].keySeen = FALSE, ![r].mapper = "nokey",
                 ![r].columnMapping = JObject(mockColumnMapping(headers))]
        ELSE req' = [req EXCEPT ![r].pc = "fetch", ![r].parses = @ + 1,
                 ![r].parsedData = parsedData, ![r].headers = headers,
                 ![r].keySeen = TRUE, ![r].calls = @ + 1]
  /\ UNCHANGED <<envKey, call>>

\* handleStandardizeMode after file.text() settles: parseCSV, the empty
\* check, the headers, and generateColumnMapping up to `await fetch(...)`.
StdText(r) ==
  /\ req[r].pc = "stdText"
  /\ LET f == req[r].file
         parsedData == parseCSV(f.text)
         headers == keys(parsedData[1])
     IN IF ~f.readable
          THEN Respond(r, ErrorResponse(200, "Error standardizing CSV file", TRUE))
        ELSE IF Len(parsedData) = 0
          THEN req' = [req EXCEPT ![r].pc = "done", ![r].parses = @ + 1,
                 ![r].resp = ErrorResponse(200, "Could not parse any data from the CSV file", FALSE)]
        ELSE IF ~envKey
          THEN req' = [req EXCEPT ![r].pc = "mapped", ![r].parses = @ + 1,
                 ![r].parsedData = parsedData, ![r].headers = headers,
                 ![r].keySeen = FALSE, ![r].mapper = "nokey",
                 ![r].columnMapping = JObject(mockColumnMapping(headers))]
        ELSE req' = [req EXCEPT ![r].pc = "fetch", ![r].parses = @ + 1,
                 ![r].parsedData = parsedData, ![r].headers = headers,
                 ![r].keySeen = TRUE, ![r].calls = @ + 1]
  /\ UNCHANGED <<envKey, call>>

\* The reasoning service settles the fetch: the call is rejected (a
\* transport error), or it resolves with a status; `!response.ok` throws.
FetchOutcomes == {"reject", "status", "ok"}
\* A settlement that calls the service a second time after a failed call.
FetchSettleRetry(r, outcome) ==
  /\ req[r].pc = "fetch"
  /\ IF outcome = "ok"
       THEN req' = [req EXCEPT ![r].pc = "json"]
     ELSE IF req[r].calls < 2
       THEN req' = [req EXCEPT ![r].calls = @ + 1]
       ELSE Fallback(r, outcome)
  /\ UNCHANGED <<envKey, call>>

FetchSettle(r, outcome) ==
  /\ req[r].pc = "fetch"
  /\ IF outcome = "ok"
       THEN req' = [req EXCEPT ![r].pc = "json"]
       ELSE Fallback(r, outcome)
  /\ UNCHANGED <<envKey, call>>

\* response.json() settles: it is rejected (the body is not JSON), or the
\* result lacks choices[0].message.content as a string (a TypeError), or
\* JSON.parse throws on the content, or JSON.parse returns a value.
BodyFailures == {"badbody", "noshape", "unparseable"}
JsonFail(r, failure) ==
  /\ req[r].pc = "json"
  /\ Fallback(r, failure)
  /\ UNCHANGED <<envKey, call>>

JsonReply(r, mapping) ==
  /\ req[r].pc = "json"
  /\ Mapped(r, "reply", mapping)
  /\ UNCHANGED <<envKey, call>>

\* A last step that standardizes the rows held by the first request.
FinishShared(r) ==
  /\ req[r].pc = "mapped"
  /\ LET q == req[r]
         sd == standardizeData(req[1].parsedData, q.columnMapping)
     IN IF sd.threw
          THEN Respond(r, ErrorResponse(200, "Error standardizing CSV file", TRUE))
          ELSE Respond(r, [NoResponse EXCEPT !.http = 200, !.status = "success",
                 !.message = "CSV standardization completed successfully",
                 !.standardization = TRUE,
                 !.original_headers = q.headers,
                 !.column_mapping = q.columnMapping,
                 !.standardized_data = slice0(sd.rows, PreviewBound),
                 !.original_data = slice0(req[1].parsedData, PreviewBound),
                 !.total_rows = Len(req[1].parsedData)])
  /\ UNCHANGED <<envKey, call>>

\* A last step whose standardizer rewrites the rows it is given in place.
FinishInPlace(r) ==
  /\ req[r].pc = "mapped"
  /\ LET q == req[r]
         sd == standardizeData(q.parsedData, q.columnMapping)
     IN IF sd.threw
          THEN Respond(r, ErrorResponse(200, "Error standardizing CSV file", TRUE))
          ELSE req' = [req EXCEPT ![r].pc = "done", ![r].parsedData = sd.rows,
                 ![r].resp = [NoResponse EXCEPT !.http = 200, !.status = "success",
                    !.message = "CSV standardization completed successfully",
                    !.standardization = TRUE,
                    !.original_headers = q.headers,
                    !.column_mapping = q.columnMapping,
                    !.standardized_data = slice0(sd.rows, PreviewBound),
                    !.original_data = slice0(sd.rows, PreviewBound),
                    !.total_rows = Len(sd.rows)]]
  /\ UNCHANGED <<envKey, call>>

\* handleStandardizeMode after the mapping: standardizeData and the
\* success response, or the catch block when standardizeData throws.
Finish(r) ==
  /\ req[r].pc = "mapped"
  /\ LET q == req[r]
         sd == standardizeData(q.parsedData, q.columnMapping)
     IN IF sd.threw
          THEN Respond(r, ErrorResponse(200, "Error standardizing CSV file", TRUE))
          ELSE Respond(r, [NoResponse EXCEPT !.http = 200, !.status = "success",
                 !.message = "CSV standardization completed successfully",
                 !.standardization = TRUE,
                 !.original_headers = q.headers,
                 !.column_mapping = q.columnMapping,
                 !.standardized_data = slice0(sd.rows, PreviewBound),
                 !.original_data = slice0(q.parsedData, PreviewBound),
                 !.total_rows = Len(q.parsedData)])
  /\ UNCHANGED <<envKey, call>>

(***************************************************************************)
(* Specifications                                                          *)
(***************************************************************************)
Step(r) ==
  \/ FormData(r)
  \/ ViewText(r)
  \/ StdText(r)
  \/ Finish(r)

Service(r) ==
  \/ \E outcome \in FetchOutcomes : FetchSettle(r, outcome)
  \/ \E failure \in BodyFailures : JsonFail(r, failure)
  \/ \E mapping \in ReplyValues(req[r].headers) : JsonReply(r, mapping)

Arrive(r, files) ==
  \/ \E mode \in Modes, file \in files : Receive(r, mode, "file", file)
  \/ \E mode \in Modes, form \in {"malformed", "nofile"} : Receive(r, mode, form, NoFile)

Next ==
  \/ SetEnv
  \/ \E r \in Reqs : Arrive(r, FilesOf(Texts) \cup {LongFile})
  \/ \E r \in Reqs : Step(r)
  \/ \E r \in Reqs : Service(r)

Spec == Init /\ [][Next]_vars

\* Two requests in flight at once, over small files.
PairTexts == {T_headerOnly, T_collide}
PairInit ==
  /\ envKey \in BOOLEAN
  /\ req = [r \in 1..2 |-> Idle]
  /\ call = NoCall
PairNext ==
  \/ SetEnv
  \/ \E r \in Reqs : Arrive(r, FilesOf(PairTexts))
  \/ \E r \in Reqs : Step(r)
  \/ \E r \in Reqs : Service(r)
SpecPair == PairInit /\ [][PairNext]_vars

\* One request over the small files, and a file with a header the
\* heuristic mapper gives no name.
ShortTexts == SmallTexts \cup {T_dash}
ShortNext ==
  \/ SetEnv
  \/ \E r \in Reqs : Arrive(r, FilesOf(ShortTexts))
  \/ \E r \in Reqs : Step(r)
  \/ \E r \in Reqs : Service(r)
SpecShort == Init /\ [][ShortNext]_vars

(***************************************************************************)
(* Direct calls of the pure functions                                      *)
(***************************************************************************)
Called(fn, args) ==
  /\ envKey = FALSE
  /\ req = [r \in 1..1 |-> Idle]
  /\ call \in [fn : {fn}, arg : args, returned : {FALSE}, ret : {<<>>}]

Return(result) ==
  /\ ~call.returned
  /\ call' = [call EXCEPT !.returned = TRUE, !.ret = result]
  /\ UNCHANGED <<envKey, req>>

\* parseCSV(text) for the generated texts.
TokInit == Called("parseCSV", TokTexts)
Tokenize == call.fn = "parseCSV" /\ Return(parseCSV(call.arg))
TokNext == Tokenize
SpecTok == TokInit /\ [][TokNext]_vars

\* mockColumnMapping(originalHeaders) for the generated header lists.
MapInit == Called("mockColumnMapping", HeaderLists)
MapHeaders == call.fn = "mockColumnMapping" /\ Return(mockColumnMapping(call.arg))
MapNext == MapHeaders
SpecMap == MapInit /\ [][MapNext]_vars

(***************************************************************************)
(* Properties of the tokenizer (SpecTok)                                   *)
(***************************************************************************)
\* The call of parseCSV has returned: its text, the non-blank lines, the
\* headers and the rows returned.
TokReturned == call.fn = "parseCSV" /\ call.returned
TokLines == csvLines(call.arg)
TokHeaders == csvHeaders(TokLines)
TokRows == call.ret
\* The data line that row r comes from.
TokLine(r) == TokLines[r + 1]

Min(a, b) == IF a < b THEN a ELSE b
Distinct(hs) == \A i, j \in 1..Len(hs) : hs[i] = hs[j] => i = j
\* Position p is the last one that holds the header name hs[p].
LastOf(hs, p) == \A p2 \in (p + 1)..Len(hs) : hs[p2] # hs[p]

QuotesBefore(line, p) == Cardinality({i \in 1..(p - 1) : line[i] = QUOTE})
\* The commas of a line that are not between an opening and a closing quote.
OutsideCommas(line) ==
  {p \in 1..Len(line) : line[p] = COMMA /\ QuotesBefore(line, p) % 2 = 0}
\* The number of fields of a line, a quoted comma not separating fields.
QuotedFieldCount(line) == Cardinality(OutsideCommas(line)) + 1
\* The number of fields of a line, every comma separating fields.
CommaFieldCount(line) == Len(split(line, COMMA))
\* The fields <<i, j>> of a line that are wrapped in quotes (at i and j,
\* between delimiters) and hold a comma.
QuotedCommaFields(line) ==
  {f \in (1..Len(line)) \X (1..Len(line)) :
     /\ f[1] < f[2]
     /\ line[f[1]] = QUOTE /\ line[f[2]] = QUOTE
     /\ QuotesBefore(line, f[1]) % 2 = 0
     /\ (f[1] = 1 \/ line[f[1] - 1] = COMMA)
     /\ (f[2] = Len(line) \/ line[f[2] + 1] = COMMA)
     /\ \A i \in (f[1] + 1)..(f[2] - 1) : line[i] # QUOTE
     /\ \E i \in (f[1] + 1)..(f[2] - 1) : line[i] = COMMA}
\* The 0-based position of the field starting at i, and the text in the quotes.
FieldIndex(line, i) == Cardinality({p \in OutsideCommas(line) : p < i})
Inner(line, f) == SubSeq(line, f[1] + 1, f[2] - 1)

HeuristicOf(rows) == JObject(mockColumnMapping(keys(rows[1])))

\* C5: every row returned by parseCSV has one value for each header, one row
\* per non-blank data line; a line with fewer comma-separated fields than
\* headers has the empty string for the missing trailing headers, and the
\* empty string under their canonical keys after standardization; a line
\* (without quotes) with more fields than headers keeps the first fields
\* and drops the excess.
C5_RowPadding ==
  TokReturned /\ Len(TokLines) > 0 =>
    /\ Len(TokRows) = Len(TokLines) - 1
    /\ \A r \in 1..Len(TokRows) :
         LET line == TokLine(r)
             n == CommaFieldCount(line)
             std == standardizeRow(TokRows[r], HeuristicOf(TokRows))
         IN /\ KeySet(TokRows[r]) = Range(TokHeaders)
            /\ \A p \in (n + 1)..Len(TokHeaders) :
                 /\ Get(TokRows[r], TokHeaders[p]) = <<>>
                 /\ Get(std, standardCol(HeuristicOf(TokRows), TokHeaders[p])) = <<>>
            /\ QUOTE \notin Range(line) =>
                 \A p \in 1..Min(n, Len(TokHeaders)) :
                   LastOf(TokHeaders, p) =>
                     Get(TokRows[r], TokHeaders[p]) = trim(split(line, COMMA)[p])

\* Well-formed input: no quote character, distinct header names, and as
\* many comma-separated fields in every data line as there are headers.
WellFormed ==
  /\ QUOTE \notin Range(call.arg)
  /\ Len(TokLines) > 0
  /\ Distinct(TokHeaders)
  /\ \A k \in 2..Len(TokLines) : CommaFieldCount(TokLines[k]) = Len(TokHeaders)

\* The rows written out again: values in header order joined by commas,
\* rows joined by line feeds.
Serialize(rows, hs) ==
  join([r \in 1..Len(rows) |-> join([p \in 1..Len(hs) |-> Get(rows[r], hs[p])], <<COMMA>>)],
       <<LF>>)
TrimFields(line) ==
  LET fs == split(line, COMMA) IN join([p \in 1..Len(fs) |-> trim(fs[p])], <<COMMA>>)

\* C6 as claimed: tokenizing a well-formed text and writing the rows out
\* again reproduces the data lines exactly.
C6_RoundTripExact ==
  TokReturned /\ WellFormed =>
    Serialize(TokRows, TokHeaders) = join(Tail(TokLines), <<LF>>)

\* C6 amended: tokenizing a well-formed text and writing the rows out
\* again reproduces the data lines with the leading and trailing white
\* space of every value removed.
C6_RoundTripTrimmed ==
  TokReturned /\ WellFormed =>
    Serialize(TokRows, TokHeaders)
      = join([k \in 1..(Len(TokLines) - 1) |-> TrimFields(TokLines[k + 1])], <<LF>>)

\* A well-formed text of two columns and one row, or one column and more
\* rows, holding a value padded with blanks, has been tokenized.
C6_Witness ==
  /\ TokReturned /\ WellFormed
  /\ Len(TokRows) >= 2
  /\ \E k \in 2..Len(TokLines) : TrimFields(TokLines[k]) # TokLines[k]

HasOpenQuote(line) == Cardinality({i \in 1..Len(line) : line[i] = QUOTE}) % 2 = 1

\* C8: when a data line has an unbalanced quote, parseCSV still returns one
\* row for every data line, in input order, and the row of each line is the
\* row that line gives in a file of its own under the same header line.
C8_UnbalancedQuoteRecovered ==
  TokReturned /\ (\E k \in 2..Len(TokLines) : HasOpenQuote(TokLines[k])) =>
    /\ Len(TokRows) = Len(TokLines) - 1
    /\ \A r \in 1..Len(TokRows) :
         /\ KeySet(TokRows[r]) = Range(TokHeaders)
         /\ <<TokRows[r]>> = parseCSV(TokLines[1] \o <<LF>> \o TokLine(r))

\* A text whose first data line has an unbalanced quote and whose later
\* lines hold plain values has been tokenized.
C8_Witness ==
  /\ TokReturned /\ Len(TokRows) = 3
  /\ HasOpenQuote(TokLine(1))
  /\ Get(TokRows[1], TokHeaders[1]) = <<"u">>
  /\ Get(TokRows[3], TokHeaders[1]) = <<"x">>

(***************************************************************************)
(* Properties of the heuristic mapper (SpecMap)                            *)
(***************************************************************************)
MapReturned == call.fn = "mockColumnMapping" /\ call.returned

\* The ordered rule table of the heuristic mapper: the substrings a rule
\* looks for in the lower-cased header, and the name it assigns.
RuleTable ==
  <<[subs |-> {s_date, s_dt}, name |-> procedure_date],
    [subs |-> {s_proc, s_surg, s_operation}, name |-> procedure_type],
    [subs |-> {s_patient, s_pt, s_id}, name |-> patient_id],
    [subs |-> {s_hosp, s_fac, s_loc}, name |-> hospital],
    [subs |-> {s_doc, s_phys, s_surg, s_attend}, name |-> attending]>>
RoleNames == {RuleTable[i].name : i \in 1..Len(RuleTable)}
\* The rules a header matches.
Matching(header) ==
  {i \in 1..Len(RuleTable) : \E sub \in RuleTable[i].subs : includes(toLowerCase(header), sub)}
FirstOf(S) == CHOOSE i \in S : \A j \in S : i <= j

\* C7: the name mockColumnMapping gives a header is the name of the first
\* rule of the ordered table that the lower-cased header matches, and the
\* Other name (the snake_case rewrite, none of the five role names) when it
\* matches none; a header with both surg and date gets procedure_date.
C7_FirstMatchWins ==
  MapReturned =>
    \A i \in 1..Len(call.arg) :
      LET h == call.arg[i]
          name == Get(call.ret, h)
      IN /\ HasKey(call.ret, h)
         /\ Matching(h) # {} => name = RuleTable[FirstOf(Matching(h))].name
         /\ Matching(h) = {} => name = snakeCase(h) /\ name \notin RoleNames
         /\ (includes(toLowerCase(h), s_surg) /\ includes(toLowerCase(h), s_date))
              => name = procedure_date

\* A header that matches rule 1 (date) and rules 2 and 5 (surg), in upper
\* case, has been mapped to procedure_date.
C7_Witness ==
  /\ MapReturned
  /\ call.arg = <<<<"S","U","R","G","d","a","t","e">>>>
  /\ Matching(call.arg[1]) = {1, 2, 5}
  /\ Get(call.ret, call.arg[1]) = procedure_date

(***************************************************************************)
(* Properties of a request (Spec)                                          *)
(***************************************************************************)
\* Request r has returned the success response of standardize mode.
Success(r) == req[r].pc = "done" /\ req[r].resp.standardization

\* The ways the reasoning mapper is unavailable or fails.
FailureModes == {"nokey", "reject", "status", "badbody", "noshape", "unparseable"}

\* C1: when no credential is configured or the call of the reasoning
\* service fails (transport error, non-success status, a reply that cannot
\* be parsed), the mapping generateColumnMapping returns, and the response
\* carries, has exactly the headers as keys and the heuristic mapper's name
\* for every header.
C1_FallbackIsHeuristic ==
  \A r \in Reqs :
    LET q == req[r]
    IN (q.pc \in {"mapped", "done"} /\ q.mapper \in FailureModes) =>
         /\ q.columnMapping.kind = "object"
         /\ KeySet(q.columnMapping.obj) = Range(q.headers)
         /\ \A h \in Range(q.headers) : Get(q.columnMapping.obj, h) = heuristicName(h)
         /\ q.pc = "done" =>
              /\ Success(r)
              /\ q.resp.column_mapping = JObject(mockColumnMapping(q.headers))

\* A request whose reasoning reply could not be parsed has returned, with
\* the credential configured and more than one header.
C1_Witness ==
  \E r \in Reqs :
    /\ Success(r)
    /\ req[r].mapper = "unparseable" /\ req[r].keySeen
    /\ Len(req[r].headers) >= 2

s_code == <<"c","o","d","e">>

\* The values of the columns of a source row that resolve to the key.
ResolvingTo(row, mapping, key) ==
  {e.v : e \in {x \in Range(entries(row)) : standardCol(mapping, x.k) = key}}

\* C2 as claimed: every standardized row contains the key `code`, with the
\* empty string when no source column resolves to it and a source value
\* when one does.
C2_CodeKey ==
  \A r \in Reqs : Success(r) =>
    \A i \in 1..Len(req[r].resp.standardized_data) :
      LET row == req[r].resp.standardized_data[i]
          from == ResolvingTo(req[r].resp.original_data[i], req[r].resp.column_mapping, s_code)
      IN /\ HasKey(row, s_code)
         /\ Get(row, s_code) \in (IF from = {} THEN {<<>>} ELSE from)

\* C2 amended: every standardized row contains the key `cpt_code`, with the
\* empty string when no source column resolves to it and a source value
\* when one does.
C2_CptCodeKey ==
  \A r \in Reqs : Success(r) =>
    \A i \in 1..Len(req[r].resp.standardized_data) :
      LET row == req[r].resp.standardized_data[i]
          from == ResolvingTo(req[r].resp.original_data[i], req[r].resp.column_mapping, cpt_code)
      IN /\ HasKey(row, cpt_code)
         /\ Get(row, cpt_code) \in (IF from = {} THEN {<<>>} ELSE from)

\* A response holds a row whose cpt_code is the value of the source column
\* cpt_code, and a row where that value is the empty string.
C2_Witness ==
  \E r \in Reqs :
    /\ Success(r)
    /\ \E i, j \in 1..Len(req[r].resp.standardized_data) :
         /\ HasKey(req[r].resp.original_data[i], cpt_code)
         /\ HasKey(req[r].resp.original_data[j], cpt_code)
         /\ Get(req[r].resp.original_data[i], cpt_code) = <<"7">>
         /\ Get(req[r].resp.standardized_data[i], cpt_code) = <<"7">>
         /\ Get(req[r].resp.original_data[j], cpt_code) = <<>>
         /\ Get(req[r].resp.standardized_data[j], cpt_code) = <<>>

\* C3: a success response holds the first min(N, 100) parsed rows, in input
\* order, as original_data, their standardized rows as standardized_data,
\* and N as total_rows, N >= 1 being the number of rows parseCSV returns.
C3_PreviewBounded ==
  \A r \in Reqs : Success(r) =>
    LET rows == parseCSV(req[r].file.text)
        N == Len(rows)
        resp == req[r].resp
    IN /\ N >= 1
       /\ resp.total_rows = N
       /\ Len(resp.standardized_data) = Min(N, PreviewBound)
       /\ Len(resp.original_data) = Min(N, PreviewBound)
       /\ \A i \in 1..Min(N, PreviewBound) :
            /\ resp.original_data[i] = rows[i]
            /\ resp.standardized_data[i] = standardizeRow(rows[i], resp.column_mapping)

\* A file of 150 rows has been standardized: 100 rows in each preview.
C3_Witness ==
  \E r \in Reqs :
    /\ Success(r)
    /\ req[r].resp.total_rows = PreviewBound + 50
    /\ Len(req[r].resp.standardized_data) = PreviewBound
    /\ Len(req[r].resp.original_data) = PreviewBound

\* Request r waits on the reasoning service: fetch(...) or response.json()
\* is pending.
Waiting(r) == req[r].pc \in {"fetch", "json"}

\* C9: the wait of a standardize request on the reasoning service is
\* bounded: while the request waits, the program has a step of its own (the
\* expiry of a timeout, treated as a failure of the call) that ends the
\* wait, so that the request returns even when the service never replies.
C9_WaitIsBounded == \A r \in Reqs : Waiting(r) => ENABLED Step(r)

\* C10: a standardize request for a readable CSV file with at least one
\* parsed row ends with the success response, whatever the reasoning
\* service replies.
C10_NeverAnErrorResult ==
  \A r \in Reqs :
    LET q == req[r]
    IN (/\ q.pc = "done" /\ q.mode = "standardize" /\ q.form = "file"
        /\ q.file.isCsv /\ q.file.readable
        /\ Len(parseCSV(q.file.text)) >= 1)
         => q.resp.status = "success" /\ q.resp.standardization

\* The mapping the heuristic mapper alone gives for the headers of request r.
HeuristicFor(r) == JObject(mockColumnMapping(req[r].headers))

\* A value that is not an object whose keys are exactly the headers.
Deviates(mapping, headers) ==
  mapping.kind # "object" \/ KeySet(mapping.obj) # Range(headers)

\* C11: the mapping generateColumnMapping returns is never a deviating
\* reply of the reasoning service (an extra key, a missing key, not an
\* object): when the reply deviates, the mapping returned is the heuristic
\* mapper's mapping for every header.
C11_DeviatingReplyIsFailure ==
  \A r \in Reqs :
    (req[r].pc \in {"mapped", "done"} /\ req[r].mapper = "reply"
       /\ Deviates(req[r].columnMapping, req[r].headers))
      => req[r].columnMapping = HeuristicFor(r)

(***************************************************************************)
(* Properties of requests in flight together (SpecPair)                    *)
(***************************************************************************)
\* C12: a step of a request calls the reasoning service only when the
\* credential is configured in the state the step is taken in, and the
\* credential check of a request with parsed rows acts on the configuration
\* at that check (a call when it is set, the heuristic mapper when it is
\* not), whatever any earlier or other request has seen.
C12_CallOnlyWithCredential ==
  [][\A r \in Reqs :
       /\ req'[r].calls > req[r].calls => envKey
       /\ (req[r].pc = "stdText" /\ req'[r].pc \in {"fetch", "mapped"}) =>
            /\ req'[r].keySeen = envKey
            /\ (req'[r].pc = "fetch") = envKey
            /\ req'[r].calls = (IF envKey THEN 1 ELSE 0)]_vars

\* Two standardize requests for the same file have returned: one made its
\* check with the credential configured and called the service, the other
\* made its check without it and made no call.
C12_Witness ==
  /\ Success(1) /\ Success(2)
  /\ req[1].file = req[2].file
  /\ req[1].keySeen /\ req[1].calls = 1 /\ req[1].mapper = "reply"
  /\ ~req[2].keySeen /\ req[2].calls = 0 /\ req[2].mapper = "nokey"

(***************************************************************************)
(* Properties of the steps of a request (Spec)                             *)
(***************************************************************************)
\* The order of the positions of a request.
PcRank(pc) ==
  CASE pc = "idle" -> 0
    [] pc = "formData" -> 1
    [] pc \in {"viewText", "stdText"} -> 2
    [] pc = "fetch" -> 3
    [] pc = "json" -> 4
    [] pc = "mapped" -> 5
    [] pc = "done" -> 6

\* C13: within one request the reasoning service is called at most once
\* and the text is tokenized at most once; a failed call is followed at
\* once by the heuristic mapping of all the headers, without another call;
\* and a request only moves forward through its stages, so that no stage
\* runs twice, until it has returned and a new request begins.
C13_NoRetry ==
  [][\A r \in Reqs :
       /\ req'[r].calls <= 1
       /\ req'[r].parses <= 1
       /\ (req[r].pc \in {"fetch", "json"} /\ req'[r] # req[r]
             /\ req'[r].mapper \in FailureModes) =>
            /\ req'[r].pc = "mapped"
            /\ req'[r].calls = req[r].calls
            /\ req'[r].columnMapping = JObject(mockColumnMapping(req[r].headers))
       /\ req'[r] # req[r] =>
            \/ PcRank(req'[r].pc) > PcRank(req[r].pc)
            \/ req[r].pc = "done" /\ req'[r].pc = "formData"]_vars

\* A request whose call of the service was rejected has returned the
\* heuristic mapping after one call and one tokenization.
C13_Witness ==
  \E r \in Reqs :
    /\ Success(r)
    /\ req[r].mapper = "reject"
    /\ req[r].calls = 1 /\ req[r].parses = 1
    /\ req[r].resp.column_mapping = JObject(mockColumnMapping(req[r].headers))

\* Request r has run no stage of the pipeline after the tokenizer: no
\* mapping, no call of the reasoning service, no standardized row.
NoMappingStage(r) ==
  /\ req[r].calls = 0
  /\ req[r].mapper = "" /\ req[r].columnMapping = JNull
  /\ req[r].pc \notin {"fetch", "json", "mapped"}
  /\ ~req[r].resp.standardization /\ req[r].resp.standardized_data = <<>>

\* C14: a standardize request whose file is not a .csv file never reads or
\* tokenizes the file, never runs the mapping or the standardizer and never
\* calls the reasoning service; it returns the failure "File must be a CSV
\* for standardization".
C14_NotCsvShortCircuits ==
  \A r \in Reqs :
    (req[r].mode = "standardize" /\ req[r].form = "file" /\ ~req[r].file.isCsv) =>
      /\ req[r].pc \in {"formData", "done"}
      /\ req[r].parses = 0
      /\ NoMappingStage(r)
      /\ req[r].pc = "done" =>
           /\ req[r].resp.status = "error"
           /\ req[r].resp.message = "File must be a CSV for standardization"

\* A standardize request for a file that is not a .csv file, whose text
\* would give rows, has returned, the credential being configured.
C14_Witness ==
  \E r \in Reqs :
    /\ req[r].pc = "done" /\ req[r].mode = "standardize" /\ req[r].form = "file"
    /\ ~req[r].file.isCsv /\ req[r].file.text = T_scenario
    /\ envKey
    /\ req[r].resp.status = "error"

\* C15: a standardize request for a readable .csv file from which parseCSV
\* returns no row (no text, blank lines only, a header line only) returns
\* the failure "Could not parse any data from the CSV file" without
\* running the mapping and without calling the reasoning service.
C15_NoRowsShortCircuits ==
  \A r \in Reqs :
    (/\ req[r].mode = "standardize" /\ req[r].form = "file"
     /\ req[r].file.isCsv /\ req[r].file.readable
     /\ Len(parseCSV(req[r].file.text)) = 0) =>
      /\ req[r].pc \in {"formData", "stdText", "done"}
      /\ NoMappingStage(r)
      /\ req[r].pc = "done" =>
           /\ req[r].parses = 1
           /\ req[r].resp.status = "error"
           /\ req[r].resp.message = "Could not parse any data from the CSV file"

\* A standardize request for a .csv file holding a header line and no data
\* line has returned, the credential being configured.
C15_Witness ==
  \E r \in Reqs :
    /\ req[r].pc = "done" /\ req[r].mode = "standardize" /\ req[r].form = "file"
    /\ req[r].file.isCsv /\ req[r].file.text = T_headerOnly
    /\ envKey
    /\ req[r].resp.status = "error"

\* C16: a request without a file, and a request whose multipart body cannot
\* be read, each return a client-error transport status (400 to 499).
C16_ClientErrorStatus ==
  \A r \in Reqs :
    (req[r].pc = "done" /\ req[r].form \in {"nofile", "malformed"}) =>
      req[r].resp.http \in 400..499

\* Request r has returned a failure of the pipeline: a file was received
\* and the body of the response has status "error".
PipelineFailure(r) ==
  req[r].pc = "done" /\ req[r].form = "file" /\ req[r].resp.status = "error"

\* The failures that come from a caught exception.
ExceptionMessages == {"Error standardizing CSV file", "Error reading file content"}

\* C17 as claimed: every failure of the pipeline is returned with a success
\* transport status, status "error" and an errorDetails field.
C17_FailureHasDetails ==
  \A r \in Reqs : PipelineFailure(r) =>
    req[r].resp.http = 200 /\ req[r].resp.errorDetails

\* C17 amended: every failure of the pipeline is returned with a success
\* transport status and status "error"; it carries errorDetails exactly
\* when it comes from a caught exception (reading or standardizing the
\* file), and none when the file is not a .csv file in standardize mode or
\* no row was parsed; a file that cannot be read always gives such a failure.
C17_FailureShape ==
  \A r \in Reqs :
    /\ PipelineFailure(r) =>
         /\ req[r].resp.http = 200
         /\ req[r].resp.errorDetails = (req[r].resp.message \in ExceptionMessages)
         /\ req[r].resp.message \in
              ExceptionMessages \cup {"File must be a CSV for standardization",
                                      "Could not parse any data from the CSV file"}
    /\ (/\ req[r].pc = "done" /\ req[r].form = "file" /\ ~req[r].file.readable
        /\ (req[r].mode = "view" \/ req[r].file.isCsv)) =>
         PipelineFailure(r) /\ req[r].resp.errorDetails

\* A standardize request whose file could not be read has returned a
\* failure with errorDetails.
C17_Witness ==
  \E r \in Reqs :
    /\ PipelineFailure(r)
    /\ req[r].mode = "standardize" /\ ~req[r].file.readable
    /\ req[r].resp.http = 200 /\ req[r].resp.errorDetails
    /\ req[r].resp.message = "Error standardizing CSV file"

\* C18: a view request never reaches the standardize pipeline: no mapping,
\* no standardized row, no call of the reasoning service.  For a readable
\* .csv file with N >= 1 parsed rows it returns the headers, the first
\* min(N, 100) rows in input order and N as totalRows; for every other
\* readable file it returns the first min(length, 50000) characters of the
\* text as content.
C18_ViewIsPassThrough ==
  \A r \in Reqs :
    (req[r].mode = "view" /\ req[r].form = "file") =>
      /\ req[r].pc # "stdText"
      /\ NoMappingStage(r)
      /\ (req[r].pc = "done" /\ req[r].file.readable) =>
           LET f == req[r].file
               resp == req[r].resp
               rows == IF f.isCsv THEN parseCSV(f.text) ELSE <<>>
               N == Len(rows)
           IN /\ resp.http = 200 /\ resp.status = "success"
              /\ IF N >= 1
                   THEN /\ resp.fileType = "csv"
                        /\ resp.headers = keys(rows[1])
                        /\ resp.totalRows = N
                        /\ Len(resp.rows) = Min(N, PreviewBound)
                        /\ \A i \in 1..Min(N, PreviewBound) : resp.rows[i] = rows[i]
                        /\ resp.content = <<>>
                   ELSE /\ resp.fileType = "text"
                        /\ Len(resp.content) = Min(Len(f.text), ContentBound)
                        /\ resp.content = SubSeq(f.text, 1, Min(Len(f.text), ContentBound))
                        /\ resp.rows = <<>>

\* A view request for a file longer than 50000 characters has returned the
\* first 50000 characters, the credential being configured.
C18_Witness ==
  \E r \in Reqs :
    /\ req[r].pc = "done" /\ req[r].mode = "view" /\ req[r].form = "file"
    /\ envKey
    /\ Len(req[r].file.text) > ContentBound
    /\ Len(req[r].resp.content) = ContentBound

\* The response of a request run alone, from its input (mode, form, file)
\* and the behaviour of the reasoning service it met (q.mapper, and the
\* reply q.columnMapping when the service replied).
AloneStandardize(q) ==
  LET rows == parseCSV(q.file.text)
      headers == keys(rows[1])
      mapping == IF q.mapper = "reply" THEN q.columnMapping
                 ELSE JObject(mockColumnMapping(headers))
      sd == standardizeData(rows, mapping)
  IN IF ~q.file.isCsv
       THEN ErrorResponse(200, "File must be a CSV for standardization", FALSE)
     ELSE IF ~q.file.readable
       THEN ErrorResponse(200, "Error standardizing CSV file", TRUE)
     ELSE IF Len(rows) = 0
       THEN ErrorResponse(200, "Could not parse any data from the CSV file", FALSE)
     ELSE IF sd.threw
       THEN ErrorResponse(200, "Error standardizing CSV file", TRUE)
     ELSE [NoResponse EXCEPT !.http = 200, !.status = "success",
             !.message = "CSV standardization completed successfully",
             !.standardization = TRUE,
             !.original_headers = headers,
             !.column_mapping = mapping,
             !.standardized_data = SubSeq(sd.rows, 1, Min(Len(rows), PreviewBound)),
             !.original_data = SubSeq(rows, 1, Min(Len(rows), PreviewBound)),
             !.total_rows = Len(rows)]

AloneView(q) ==
  LET rows == IF q.file.isCsv THEN parseCSV(q.file.text) ELSE <<>>
  IN IF ~q.file.readable
       THEN ErrorResponse(200, "Error reading file content", TRUE)
     ELSE IF Len(rows) >= 1
       THEN [NoResponse EXCEPT !.http = 200, !.status = "success",
               !.message = "CSV file processed successfully", !.fileType = "csv",
               !.headers = keys(rows[1]),
               !.rows = SubSeq(rows, 1, Min(Len(rows), PreviewBound)),
               !.totalRows = Len(rows)]
     ELSE [NoResponse EXCEPT !.http = 200, !.status = "success",
             !.message = "File processed successfully", !.fileType = "text",
             !.content = SubSeq(q.file.text, 1, Min(Len(q.file.text), ContentBound))]

RunAlone(q) ==
  IF q.form = "malformed" THEN ErrorResponse(500, "Server error processing upload", TRUE)
  ELSE IF q.form = "nofile" THEN ErrorResponse(200, "No file received", FALSE)
  ELSE IF q.mode = "standardize" THEN AloneStandardize(q)
  ELSE AloneView(q)

\* C19: with two requests in flight in any interleaving, a step changes the
\* record of one request at most, and the response a request returns
\* (headers, column mapping, standardized rows, original rows, total row
\* count) is the response it gives when run alone with the same input and
\* the same behaviour of the reasoning service.
C19_RequestIsolation ==
  [][/\ \A r1, r2 \in Reqs : r1 # r2 => (req'[r1] = req[r1] \/ req'[r2] = req[r2])
     /\ \A r \in Reqs :
          (req'[r] # req[r] /\ req'[r].pc = "done") => req'[r].resp = RunAlone(req'[r])]_vars

\* Two standardize requests for the same file are in flight together: the
\* first has returned the mapping of the service's reply while the second,
\* which found no credential, holds the heuristic mapping and has not yet
\* returned.
C19_Witness ==
  /\ Success(1) /\ req[1].mapper = "reply" /\ req[1].columnMapping.kind = "object"
  /\ req[2].pc = "mapped" /\ req[2].mapper = "nokey"
  /\ req[1].file = req[2].file
  /\ req[1].resp.column_mapping # req[2].columnMapping
  /\ req[1].resp = RunAlone(req[1])

\* Standardization with no external service configured: the rows rewritten
\* under the heuristic mapping of their own keys.
HeuristicStandardize(T) == standardizeData(T, JObject(mockColumnMapping(keys(T[1])))).rows

\* The same rows, key for key and value for value.
SameRows(A, B) ==
  Len(A) = Len(B) /\ \A i \in 1..Len(A) : Range(A[i]) = Range(B[i])

\* C20: with no credential configured, the standardized rows a request
\* returns are left as they are by standardizing them again:
\* Standardize(Standardize(T)) = Standardize(T).
C20_StandardizeIdempotent ==
  \A r \in Reqs :
    (Success(r) /\ req[r].mapper = "nokey") =>
      SameRows(HeuristicStandardize(req[r].resp.standardized_data),
               req[r].resp.standardized_data)

(***************************************************************************)
(* Properties of the standardized rows (Spec)                              *)
(***************************************************************************)
\* The header line of the file of request r, in the order it is written.
FileHeaders(r) == csvHeaders(csvLines(req[r].file.text))

\* C21: in every standardized row of a success response, each canonical
\* key holds the value of the last header, in the order of the header
\* line, that resolves to it, and the row has one entry for each distinct
\* canonical key.
C21_LaterHeaderWins ==
  \A r \in Reqs : Success(r) =>
    LET hs == FileHeaders(r)
        m == req[r].resp.column_mapping
    IN \A i \in 1..Len(req[r].resp.standardized_data) :
         LET std == req[r].resp.standardized_data[i]
             orig == req[r].resp.original_data[i]
         IN /\ KeySet(std) = {standardCol(m, hs[p]) : p \in 1..Len(hs)} \cup {cpt_code}
            /\ \A p \in 1..Len(hs) :
                 (\A p2 \in (p + 1)..Len(hs) : standardCol(m, hs[p2]) # standardCol(m, hs[p]))
                   => Get(std, standardCol(m, hs[p])) = Get(orig, hs[p])

\* C22: in every success response the column mapping is an object whose
\* keys are exactly the headers of the parsed table, whichever mapper
\* produced it.
C22_MappingKeysAreHeaders ==
  \A r \in Reqs : Success(r) =>
    /\ req[r].resp.column_mapping.kind = "object"
    /\ KeySet(req[r].resp.column_mapping.obj) = Range(keys(parseCSV(req[r].file.text)[1]))

(***************************************************************************)
(* Properties of the lines of a text (SpecTok)                             *)
(***************************************************************************)
\* The number (from 0) of the line that position p of a text is on, the
\* numbers of the lines that hold a character other than white space, and
\* the characters of line n.
LineNo(text, p) == Cardinality({i \in 1..(p - 1) : text[i] = LF})
NonBlankNos(text) == {LineNo(text, p) : p \in {q \in 1..Len(text) : text[q] \notin WhiteSpace}}
LineText(text, n) == Pick(text, {p \in 1..Len(text) : text[p] # LF /\ LineNo(text, p) = n})

\* C23: for a text with a non-blank line, parseCSV returns one row for
\* every non-blank line after the first, blank lines being dropped
\* wherever they are, and row r is the row of the (r+1)-th non-blank line.
C23_BlankLinesDropped ==
  (TokReturned /\ NonBlankNos(call.arg) # {}) =>
    LET nos == NonBlankNos(call.arg)
        hs == TokHeaders
    IN /\ Len(TokRows) = Cardinality(nos) - 1
       /\ \A r \in 1..Len(TokRows) :
            TokRows[r] = parseLine(hs, LineText(call.arg, KthOf(nos, r + 1)))

\* A text of four lines whose third line holds one blank has been
\* tokenized: two rows, the second from the fourth line.
C23_Witness ==
  /\ TokReturned
  /\ NonBlankNos(call.arg) = {0, 1, 3}
  /\ \E p \in 1..Len(call.arg) : call.arg[p] = SP /\ LineNo(call.arg, p) = 2
  /\ Len(TokRows) = 2
  /\ Get(TokRows[2], TokHeaders[1]) = <<"x">>

(***************************************************************************)
(* Properties of the names the heuristic mapper assigns (SpecMap)          *)
(***************************************************************************)
\* The lower-cased header with every maximal run of characters other than
\* a-z and 0-9 replaced by one underscore, and no underscore at either end:
\* the letters and digits in order, an underscore before each one that
\* does not directly follow the one before it.
Squeezed(header) ==
  LET lower == toLowerCase(header)
      A == {i \in 1..Len(lower) : IsLowerAlnum(lower[i])}
  IN concat([k \in 1..Cardinality(A) |->
               IF k > 1 /\ KthOf(A, k) > KthOf(A, k - 1) + 1
                 THEN <<US, lower[KthOf(A, k)]>>
                 ELSE <<lower[KthOf(A, k)]>>])

\* C24: the name mockColumnMapping gives a header that matches none of the
\* five rules is the snake_case rewrite of the header; it holds only a-z,
\* 0-9 and underscores, never two underscores in a row, and no underscore
\* at its start or end.
C24_SnakeCase ==
  MapReturned =>
    \A i \in 1..Len(call.arg) :
      Matching(call.arg[i]) = {} =>
        LET name == Get(call.ret, call.arg[i])
        IN /\ name = Squeezed(call.arg[i])
           /\ \A p \in 1..Len(name) : IsLowerAlnum(name[p]) \/ name[p] = US
           /\ \A p \in 1..(Len(name) - 1) : ~(name[p] = US /\ name[p + 1] = US)
           /\ Len(name) > 0 => (name[1] # US /\ name[Len(name)] # US)

\* A header with an upper-case letter and a run of three characters that
\* are no letters or digits has been mapped.
C24_Witness ==
  /\ MapReturned
  /\ call.arg = <<<<"D", "a", " ", "-", "_", "b">>>>
  /\ Matching(call.arg[1]) = {}
  /\ Get(call.ret, call.arg[1]) = <<"d", "a", "_", "b">>

(***************************************************************************)
(* Properties of the standardizer's step (Spec)                            *)
(***************************************************************************)
\* C25: the step that runs standardizeData leaves the parsed rows and the
\* column mapping of the request as they were; in the success response the
\* column mapping is that mapping, original_data holds the rows parseCSV
\* returned for the file, and standardized_data holds one row for each of
\* them, in the same order, the row standardizeData gives for that row.
C25_StandardizerLeavesInput ==
  [][\A r \in Reqs :
       (req[r].pc = "mapped" /\ req'[r].pc = "done") =>
         /\ req'[r].parsedData = req[r].parsedData
         /\ req'[r].columnMapping = req[r].columnMapping
         /\ req'[r].resp.standardization =>
              LET resp == req'[r].resp
                  rows == parseCSV(req[r].file.text)
                  n == Min(Len(rows), PreviewBound)
              IN /\ resp.column_mapping = req[r].columnMapping
                 /\ resp.original_data = SubSeq(rows, 1, n)
                 /\ Len(resp.standardized_data) = n
                 /\ \A i \in 1..n :
                      LET ents == entries(rows[i])
                          last == ents[Len(ents)]
                      IN /\ resp.standardized_data[i] = standardizeRow(rows[i], resp.column_mapping)
                         /\ Get(resp.standardized_data[i],
                                standardCol(resp.column_mapping, last.k)) = last.v]_vars

\* A file of two different rows has been standardized under a reply that
\* renames its columns: the request still holds the rows parseCSV returned,
\* and the response holds them beside the standardized ones.
C25_Witness ==
  \E r \in Reqs :
    /\ Success(r) /\ req[r].mapper = "reply"
    /\ req[r].file.text = T_collide
    /\ req[r].parsedData = parseCSV(T_collide)
    /\ req[r].resp.original_data = req[r].parsedData
    /\ Len(req[r].resp.standardized_data) = 2
    /\ req[r].resp.standardized_data # req[r].resp.original_data
    /\ HasKey(req[r].resp.standardized_data[2], <<"b">>)
    /\ ~HasKey(req[r].resp.original_data[2], <<"b">>)

(***************************************************************************)
(* Precedence of the simple split in parseCSV (SpecTok)                    *)
(***************************************************************************)
\* The trimmed i-th piece of the pieces a line gives when split on every
\* comma, empty when there is no i-th piece.
NaiveField(values, i) == IF i <= Len(values) THEN trim(values[i]) ELSE <<>>

\* The number of distinct header names the quote-aware pass fills for a
\* line: those of the first positions, one for each field the line has when
\* a comma between quotes separates no fields.
FilledKeys(hs, line) ==
  Cardinality({hs[k] : k \in 1..Min(QuotedFieldCount(line), Len(hs))})

\* The quote-aware pass over data line r filled fewer keys than headers.
Resplit(r) == FilledKeys(TokHeaders, TokLine(r)) < Len(TokHeaders)

Unmapped(mapping, col) ==
  /\ mapping.kind = "object"
  /\ HasKey(mapping.obj, col) => Get(mapping.obj, col) = <<>>

\* C27 as claimed: in every standardized row of a success response, a
\* column that has no entry in the column mapping, or an empty one, is held
\* under its original header name with the value it has in the parsed row.
C27_UnmappedColumnKept ==
  \A r \in Reqs : Success(r) =>
    LET m == req[r].resp.column_mapping
    IN \A i \in 1..Len(req[r].resp.standardized_data) :
         LET std == req[r].resp.standardized_data[i]
             orig == req[r].resp.original_data[i]
         IN \A c \in KeySet(orig) :
              Unmapped(m, c) => HasKey(std, c) /\ Get(std, c) = Get(orig, c)

\* C27 amended: such a column is held under its original header name, with
\* the value it has in the parsed row unless another column of the row
\* resolves to that name, and then with the value of one of the columns that
\* resolve to it.
C27_UnmappedColumnKeptUnlessShared ==
  \A r \in Reqs : Success(r) =>
    LET m == req[r].resp.column_mapping
    IN \A i \in 1..Len(req[r].resp.standardized_data) :
         LET std == req[r].resp.standardized_data[i]
             orig == req[r].resp.original_data[i]
         IN \A c \in KeySet(orig) :
              Unmapped(m, c) =>
                /\ HasKey(std, c)
                /\ \E c2 \in KeySet(orig) :
                     standardCol(m, c2) = c /\ Get(std, c) = Get(orig, c2)
                /\ (\A c2 \in KeySet(orig) \ {c} : standardCol(m, c2) # c)
                     => Get(std, c) = Get(orig, c)

\* Rows have been standardized under a reply that leaves one header out and
\* gives the other the empty string, and under the heuristic mapping of a
\* header made of a hyphen: the columns are held under their own names.
C27_Witness ==
  \E r \in Reqs :
    /\ Success(r)
    /\ LET m == req[r].resp.column_mapping
           std == req[r].resp.standardized_data[1]
       IN \/ /\ req[r].file.text = T_collide /\ req[r].mapper = "reply"
             /\ m.kind = "object"
             /\ ~HasKey(m.obj, s_date)
             /\ HasKey(m.obj, s_dt) /\ Get(m.obj, s_dt) = <<>>
             /\ std = <<[k |-> s_date, v |-> <<"x">>], [k |-> s_dt, v |-> <<"y">>],
                        [k |-> cpt_code, v |-> <<>>]>>
          \/ /\ req[r].file.text = T_dash /\ req[r].mapper = "nokey"
             /\ Get(m.obj, <<"-">>) = <<>>
             /\ Get(std, <<"-">>) = <<"5">>

\* C28: the name mockColumnMapping gives a header is a name it maps to
\* itself, whether it is one of the five role names or the snake_case name
\* of a header that matches no rule, and such a snake_case name matches no
\* rule either.
C28_MapperIdempotent ==
  MapReturned =>
    \A i \in 1..Len(call.arg) :
      LET name == Get(call.ret, call.arg[i])
      IN /\ Get(mockColumnMapping(<<name>>), name) = name
         /\ Matching(call.arg[i]) = {} => Matching(name) = {}

\* A header that matches no rule and starts with two hyphens, and a header
\* that matches the patient rule, have been mapped to names that differ from
\* them and that the mapper maps to themselves.
C28_Witness ==
  /\ MapReturned
  /\ \/ /\ call.arg = <<<<"-", "-", "K", "#", "#", "7">>>>
        /\ Get(call.ret, call.arg[1]) = <<"k", "_", "7">>
        /\ mockColumnMapping(<<<<"k", "_", "7">>>>)
             = <<[k |-> <<"k", "_", "7">>, v |-> <<"k", "_", "7">>]>>
     \/ /\ call.arg = <<s_pt>>
        /\ Get(call.ret, s_pt) = patient_id
        /\ mockColumnMapping(<<patient_id>>) = <<[k |-> patient_id, v |-> patient_id]>>

\* C29: mockColumnMapping gives no header whose lower-cased form contains
\* surg the name attending: it gives procedure_date when the header also
\* contains date or dt, and procedure_type otherwise; a header named
\* attending contains doc, phys or attend.
C29_SurgNeverAttending ==
  MapReturned =>
    \A i \in 1..Len(call.arg) :
      LET lowerHeader == toLowerCase(call.arg[i])
          name == Get(call.ret, call.arg[i])
      IN /\ includes(lowerHeader, s_surg) =>
              /\ name # attending
              /\ name = IF includes(lowerHeader, s_date) \/ includes(lowerHeader, s_dt)
                          THEN procedure_date ELSE procedure_type
         /\ name = attending =>
              \/ includes(lowerHeader, s_doc)
              \/ includes(lowerHeader, s_phys)
              \/ includes(lowerHeader, s_attend)

\* A header that contains surg, in upper case, and doc, and neither date
\* nor dt, has been mapped to procedure_type.
C29_Witness ==
  /\ MapReturned
  /\ call.arg = <<<<"S", "U", "R", "G", "d", "o", "c">>>>
  /\ Get(call.ret, call.arg[1]) = procedure_type

(***************************************************************************)
(* The script-based upload route: POST of src/app/api/upload/route.ts      *)
(***************************************************************************)
\* A request of this route is a record of req: its position (pc), what the
\* multipart form holds, and the two files it names with its own uuid, so
\* no two requests share a file: uploaded is "originalFilePath exists" and
\* standardized is "standardizedFilePath exists".  wrote: writeFile has
\* returned.  results: rows read from the standardized file.  cleanup: how
\* the clean-up block ended.  The response:
\* http, error, info (columnMappingInfo), data (length of data and where it
\* comes from).
MaxResults == 2
UploadForms == {"malformed", "nofile", "notcsv", "csv"}

UploadIdle ==
  [pc |-> "idle", form |-> "", wrote |-> FALSE, uploaded |-> FALSE,
   standardized |-> FALSE, script |-> "", results |-> 0,
   cleanup |-> "", http |-> 0, error |-> "", info |-> "", data |-> [n |-> 0, from |-> ""]]

\* The outer catch: the 500 response; no file is touched.
UploadError(q) == [q EXCEPT !.pc = "done", !.http = 500, !.error = "Error processing upload"]

\* "Clean up temporary files": existsSync and unlinkSync of the uploaded
\* file, then of the standardized file, inside one try; an unlinkSync that
\* throws ("throw1", "throw2") ends the block with the rest left undone.
CleanupOutcomes == {"ok", "throw1", "throw2"}
Cleanup(q, outcome) ==
  IF q.uploaded /\ outcome = "throw1" THEN q
  ELSE IF q.standardized /\ outcome = "throw2" THEN [q EXCEPT !.uploaded = FALSE]
  ELSE [q EXCEPT !.uploaded = FALSE, !.standardized = FALSE]

\* The success response after the clean-up.
UploadSuccess(q, outcome) ==
  [Cleanup(q, outcome) EXCEPT !.pc = "done", !.http = 200,
     !.cleanup = IF (q.uploaded /\ outcome = "throw1") \/ (q.standardized /\ outcome = "throw2")
                   THEN outcome ELSE "ok"]

\* request.formData() settles; the checks of the file field follow.
UploadArrive(r) ==
  /\ req[r].pc = "idle"
  /\ \E form \in UploadForms :
       LET q == [req[r] EXCEPT !.form = form]
       IN req' = [req EXCEPT ![r] =
            CASE form = "malformed" -> UploadError(q)
              [] form = "nofile" -> [q EXCEPT !.pc = "done", !.http = 400, !.error = "No file uploaded"]
              [] form = "notcsv" -> [q EXCEPT !.pc = "done", !.http = 400, !.error = "Uploaded file must be a CSV"]
              [] OTHER -> [q EXCEPT !.pc = "write"]]
  /\ UNCHANGED <<envKey, call>>

\* file.arrayBuffer() and writeFile(originalFilePath, fileBuffer) settle:
\* the file is written, or the write is rejected (the file may have been
\* created) and the outer catch answers.
UploadWrite(r) ==
  /\ req[r].pc = "write"
  /\ \/ req' = [req EXCEPT ![r].pc = "script", ![r].wrote = TRUE, ![r].uploaded = TRUE]
     \/ \E left \in BOOLEAN :
          req' = [req EXCEPT ![r] = UploadError([req[r] EXCEPT !.uploaded = left])]
  /\ UNCHANGED <<envKey, call>>

\* execPromise(command) settles: the script ended well or not (a failure is
\* logged and the handler goes on), and has or has not left the
\* standardized file.  Without that file the handler takes mock data,
\* cleans up and answers; with it the handler starts to read it.
UploadScript(r) ==
  /\ req[r].pc = "script"
  /\ \E ended \in {"ok", "failed"}, out \in BOOLEAN, outcome \in CleanupOutcomes :
       LET q == [req[r] EXCEPT !.script = ended, !.standardized = out]
       IN req' = [req EXCEPT ![r] =
            IF out THEN [q EXCEPT !.pc = "read"]
            ELSE UploadSuccess([q EXCEPT !.data = [n |-> 5, from |-> "mock"],
                                         !.info = "default"], outcome)]
  /\ UNCHANGED <<envKey, call>>

\* The read stream of the standardized file ends with n rows, or emits an
\* error: the promise is rejected and the outer catch answers.
UploadRead(r) ==
  /\ req[r].pc = "read"
  /\ \/ \E n \in 0..MaxResults, outcome \in CleanupOutcomes :
          LET q == [req[r] EXCEPT !.results = n]
              withData == IF n > 0
                            THEN [q EXCEPT !.info = "mapped",
                                           !.data = [n |-> n, from |-> IF envKey THEN "rows" ELSE "mock"]]
                            ELSE q
          IN req' = [req EXCEPT ![r] = UploadSuccess(withData, outcome)]
     \/ req' = [req EXCEPT ![r] = UploadError(req[r])]
  /\ UNCHANGED <<envKey, call>>

UploadInit ==
  /\ envKey \in BOOLEAN
  /\ req = [r \in 1..2 |-> UploadIdle]
  /\ call = NoCall

UploadNext ==
  \/ SetEnv
  \/ \E r \in Reqs : UploadArrive(r)
  \/ \E r \in Reqs : UploadWrite(r)
  \/ \E r \in Reqs : UploadScript(r)
  \/ \E r \in Reqs : UploadRead(r)

SpecUpload == UploadInit /\ [][UploadNext]_vars

(***************************************************************************)
(* Properties of the upload route (SpecUpload)                             *)
(***************************************************************************)
\* C30: a request that has written the uploaded file and has returned its
\* response has left neither the uploaded file nor the standardized file,
\* whether the script ended well, failed, or an exception ended the handler
\* with the 500 response.
C30_FilesRemovedAtResponse ==
  \A r \in Reqs :
    (req[r].pc = "done" /\ req[r].wrote) => ~req[r].uploaded /\ ~req[r].standardized

\* A 200 response whose clean-up ran to its end leaves neither file.
CleanupRemovesFiles ==
  \A r \in Reqs :
    (req[r].pc = "done" /\ req[r].http = 200 /\ req[r].cleanup = "ok")
      => ~req[r].uploaded /\ ~req[r].standardized

====
